---- MODULE Spec2Model ----
(***************************************************************************)
(* bevy_log: LogSettings, its shared dynamic prefix, and LogPlugin::build  *)
(* (crates/bevy_log/src/lib.rs), desktop target (not wasm32, not android). *)
(*                                                                         *)
(* Strings are TLC strings: \o is concatenation and Len the length.        *)
(***************************************************************************)
EXTENDS Integers, Sequences, FiniteSets, TLC

VARIABLES
    env,             \* RUST_LOG, the variable EnvFilter::try_from_default_env reads
    tracing_chrome,  \* whether the crate is built with feature "tracing-chrome"
    settings,        \* the LogSettings resource of the world, or NoSettings
    cells,           \* the Arc<RwLock<String>> allocations, by handle (index)
    sink,            \* the global default subscriber, or NoSink
    nonSendGuard,    \* the chrome FlushGuard held by the world: 0, or the build that made it
    builds,          \* the number of LogPlugin::build calls so far
    lastBuild,       \* how the last LogPlugin::build call ended
    default_filter,  \* the local default_filter of the last LogPlugin::build call
    pc,              \* per thread: where it is
    msg,             \* per thread: the local msg of set_dynamic_prefix
    event,           \* per thread: the fields of the event being formatted
    idx,             \* per thread: the next field of the event to format
    out,             \* per thread: the writer's text for the event so far
    arg,             \* per thread: the argument set_dynamic_prefix was called with
    during,          \* per thread: the values the cell has had since its read began
    ops              \* the number of operations begun so far (host, build, threads)

vars == <<env, tracing_chrome, settings, cells, sink, nonSendGuard, builds,
          lastBuild, default_filter, pc, msg, event, idx, out, arg, during, ops>>

worldVars == <<env, tracing_chrome, settings, sink, nonSendGuard, builds,
               lastBuild, default_filter>>

(* ------------------------------ bounds --------------------------------- *)

NumThreads == 2
MaxOps == 4

Threads == 1..NumThreads

(* ------------------------------ values --------------------------------- *)

NoEnv == "<unset>"
NoSettings == [absent |-> "LogSettings"]
NoSink == [absent |-> "subscriber"]
NoCall == "<never set>"

\* tracing::Level
Levels == {"Level::TRACE", "Level::DEBUG", "Level::INFO", "Level::WARN", "Level::ERROR"}

\* <Level as Display>::fmt, used by format!("{},{}", settings.level, ..)
LevelName(level) ==
    CASE level = "Level::TRACE" -> "TRACE"
      [] level = "Level::DEBUG" -> "DEBUG"
      [] level = "Level::INFO"  -> "INFO"
      [] level = "Level::WARN"  -> "WARN"
      [] level = "Level::ERROR" -> "ERROR"

\* The prefix texts the host passes to set_dynamic_prefix.
Prefixes == {"", "REQ-42"}

\* The filter patterns and levels a host writes into LogSettings.
HostFilters == {"mylib=error", "mylib=bogus"}
HostLevels == {"Level::WARN", "Level::INFO"}

\* The values RUST_LOG takes.
EnvValues == {NoEnv, "debug", "mylib=bogus"}

(* ------------------- LogSettings::set_dynamic_prefix ------------------- *)

\* Mutant: no space is pushed.
PushSpaceNever(s) == s

\* Mutant: the space is pushed whatever the length of msg.
PushSpaceAlways(s) == s \o " "

\* if msg.len() > 0 { msg.push(' ') }
PushSpace(s) == IF Len(s) > 0 THEN s \o " " ELSE s

\* The String in the RwLock while the assignment *guard = msg is under way:
\* the old String is being dropped and the new one moved in, so the memory
\* holds neither. Only the holder of the write guard can see the cell so.
Torn(old, new) == "<torn " \o old \o "|" \o new \o ">"

(* ---------------------- the field formatter closure -------------------- *)

\* A field value is recorded as &dyn Debug: the message of info!("..") is a
\* fmt::Arguments (Debug prints its text), a &str prints quoted, numbers and
\* booleans print their text.
Args(text) == [kind |-> "Arguments", text |-> text]
Str(text) == [kind |-> "str", text |-> text]
Prim(text) == [kind |-> "primitive", text |-> text]

\* "{:?}" of a recorded value
DebugFmt(value) ==
    IF value.kind = "str" THEN "\"" \o value.text \o "\"" ELSE value.text

Field(name, value) == [name |-> name, value |-> value]

\* The events the threads log, as their fields in recording order.
Events ==
    { <<Field("message", Args("hello"))>>,
      <<Field("message", Args("hello")), Field("user", Str("bob"))>>,
      <<Field("count", Prim("7")), Field("flag", Prim("true"))>> }

\* Mutant: a separating space is written between the prefix and the message.
FieldFnExtraSpace(prefix, field) ==
    IF field.name = "message"
    THEN prefix \o " " \o DebugFmt(field.value)
    ELSE field.name \o "=" \o DebugFmt(field.value)

\* Mutant: the prefix is written before every field, not only the message.
FieldFnPrefixAll(prefix, field) ==
    IF field.name = "message"
    THEN prefix \o DebugFmt(field.value)
    ELSE prefix \o field.name \o "=" \o DebugFmt(field.value)

\* The closure given to format::debug_fn, with prefix the text read from
\* the cell (only read when the field is the message).
FieldFn(prefix, field) ==
    IF field.name = "message"
    THEN prefix \o DebugFmt(field.value)
    ELSE field.name \o "=" \o DebugFmt(field.value)

\* .delimited(", "): the delimiter goes before every field but the first.
Delimited(written, seen, text) ==
    IF seen THEN written \o ", " \o text ELSE text

(* ----------------------------- the filter ------------------------------ *)

\* Mutant: format!("{}, {}", ..), a space after the comma.
DefaultFilterSpace(level, filter) == LevelName(level) \o ", " \o filter

\* format!("{},{}", settings.level, settings.filter)
DefaultFilter(level, filter) == LevelName(level) \o "," \o filter

\* EnvFilter's directive syntax, within the bounds of the model: a directive
\* is a level, a target, or target=level; an expression is a comma-separated
\* list of directives.
LevelWords == {"TRACE", "DEBUG", "INFO", "WARN", "ERROR", "debug", "warn", "error"}
Targets == {"wgpu", "mylib"}
Directives ==
    LevelWords \cup Targets \cup {t \o "=" \o l : t \in Targets, l \in LevelWords}
DirectiveLists ==
    {<<d>> : d \in Directives} \cup {<<d, e>> : d \in Directives, e \in Directives}
JoinDirectives(ds) == IF Len(ds) = 1 THEN ds[1] ELSE ds[1] \o "," \o ds[2]
ParseTable == {<<JoinDirectives(ds), ds>> : ds \in DirectiveLists}

Err == [ok |-> FALSE]
Ok(directives) == [ok |-> TRUE, directives |-> directives]

\* EnvFilter::try_new(dirs)
TryNew(dirs) ==
    LET hits == {p \in ParseTable : p[1] = dirs}
    IN  IF hits = {} THEN Err ELSE Ok((CHOOSE p \in hits : TRUE)[2])

\* EnvFilter::try_from_default_env(): RUST_LOG unset or unparsable is an Err
TryFromDefaultEnv(e) == IF e = NoEnv THEN Err ELSE TryNew(e)

\* Mutant: an unparsable default falls back to an empty filter, as
\* EnvFilter::default() would give, in place of the unwrap panic.
FilterLayerLossy(e, dflt) ==
    IF TryFromDefaultEnv(e).ok THEN TryFromDefaultEnv(e)
    ELSE IF TryNew(dflt).ok THEN TryNew(dflt) ELSE Ok(<<>>)

\* Mutant: the computed default is tried first, RUST_LOG only as fallback.
FilterLayerDefaultFirst(e, dflt) ==
    IF TryNew(dflt).ok THEN TryNew(dflt) ELSE TryFromDefaultEnv(e)

\* EnvFilter::try_from_default_env().or_else(|_| EnvFilter::try_new(&default_filter))
FilterLayer(e, dflt) ==
    IF TryFromDefaultEnv(e).ok THEN TryFromDefaultEnv(e) ELSE TryNew(dflt)

(* ------------------------------ the state ------------------------------ *)

\* Arc::new(RwLock::new(String::new())). writer is the thread holding the
\* write guard (0: none), readers the threads holding read guards. lastSet
\* and written record the calls: the argument of the last set_dynamic_prefix
\* call that returned, and the arguments of all calls made so far.
\* committed is the String the cell holds for its readers: the one of the
\* last assignment that was completed.
NewCell ==
    [value |-> "", committed |-> "", writer |-> 0, readers |-> {},
     poisoned |-> FALSE, lastSet |-> NoCall, written |-> {}]

\* Mutant: the default level is WARN.
DefaultSettingsWarn(c) ==
    [filter |-> "wgpu=error", level |-> "Level::WARN", dynamic_prefix |-> c]

\* LogSettings::default(), its Arc allocated as handle c
DefaultSettings(c) ==
    [filter |-> "wgpu=error", level |-> "Level::INFO", dynamic_prefix |-> c]

\* Mutant: the closure gets a new Arc holding a copy of the String.
CopyHandle(cs, c) == [cells |-> Append(cs, cs[c]), handle |-> Len(cs) + 1]

\* settings.dynamic_prefix.clone(), then dynamic_prefix.clone() for the
\* closure: a second handle to the same allocation, no new cell.
CloneHandle(cs, c) == [cells |-> cs, handle |-> c]

\* Mutant: a write that does not wait for the readers.
CanWriteOverReaders(c) == cells[c].writer = 0

\* RwLock::write() is granted when nobody holds a guard.
CanWrite(c) == cells[c].writer = 0 /\ cells[c].readers = {}

\* Mutant: a Mutex in place of the RwLock: a read waits for the readers too.
CanReadExclusive(c) == cells[c].writer = 0 /\ cells[c].readers = {}

\* Mutant: a read that does not wait for the writer.
CanReadUnlocked(c) == TRUE

\* RwLock::read() is granted when no writer holds the guard.
CanRead(c) == cells[c].writer = 0

\* Mutant: the poison is ignored (into_inner() on the PoisonError).
LockResultRecover(c) == "Ok"

\* The LockResult of read() and write(): Err(PoisonError) once a writer has
\* panicked holding the guard; .expect(..) panics on it.
LockResult(c) == IF cells[c].poisoned THEN "Err" ELSE "Ok"

Idle(t) == pc[t] = "idle"

Formatting(t) == pc[t] = "fmt" /\ idx[t] <= Len(event[t])

\* Thread t is in dynamic_prefix.read() or holds its guard: from the call of
\* read() for a message field to the drop of the guard.
Reading(t) ==
    \/ Formatting(t) /\ event[t][idx[t]].name = "message"
    \/ pc[t] = "fmt_read"

\* The record of what each read could have seen: when a read begins, the
\* String the cell of the LogSettings holds; while it lasts, also every
\* String an assignment completes.
Observe ==
    during' =
        [t \in Threads |->
            IF Reading(t)'
            THEN (IF Reading(t) /\ ~(pc[t] = "fmt_read" /\ pc'[t] = "fmt")
                  THEN during[t] ELSE {})
                    \cup {cells'[settings'.dynamic_prefix].committed}
            ELSE {}]

Init ==
    /\ env \in EnvValues
    /\ tracing_chrome \in BOOLEAN
    /\ settings = NoSettings
    /\ cells = <<>>
    /\ sink = NoSink
    /\ nonSendGuard = 0
    /\ builds = 0
    /\ lastBuild = "none"
    /\ default_filter = ""
    /\ pc = [t \in Threads |-> "idle"]
    /\ msg = [t \in Threads |-> ""]
    /\ arg = [t \in Threads |-> NoCall]
    /\ event = [t \in Threads |-> <<>>]
    /\ idx = [t \in Threads |-> 0]
    /\ out = [t \in Threads |-> ""]
    /\ during = [t \in Threads |-> {}]
    /\ ops = 0

(* ------------------------------ the host ------------------------------- *)

\* The host inserts its own LogSettings resource before the plugin is built.
InsertSettings(f, l) ==
    /\ ops < MaxOps
    /\ ops' = ops + 1
    /\ settings = NoSettings
    /\ settings' = [filter |-> f, level |-> l, dynamic_prefix |-> Len(cells) + 1]
    /\ cells' = Append(cells, NewCell)
    /\ UNCHANGED <<env, tracing_chrome, sink, nonSendGuard, builds, lastBuild,
                   default_filter, pc, msg, arg, event, idx, out, during>>

\* Mutant: assigning filter or level reloads the installed filter.
MutateSettingsReloads(f, l) ==
    /\ ops < MaxOps
    /\ ops' = ops + 1
    /\ settings # NoSettings
    /\ settings' = [settings EXCEPT !.filter = f, !.level = l]
    /\ settings' # settings
    /\ sink' = IF sink = NoSink THEN sink
               ELSE [sink EXCEPT !.filter = FilterLayer(env, DefaultFilter(l, f)).directives]
    /\ UNCHANGED <<env, tracing_chrome, cells, nonSendGuard, builds, lastBuild,
                   default_filter, pc, msg, arg, event, idx, out, during>>

\* filter and level are pub fields: the host may assign them at any time.
MutateSettings(f, l) ==
    /\ ops < MaxOps
    /\ ops' = ops + 1
    /\ settings # NoSettings
    /\ settings' = [settings EXCEPT !.filter = f, !.level = l]
    /\ settings' # settings
    /\ UNCHANGED <<env, tracing_chrome, cells, sink, nonSendGuard, builds, lastBuild,
                   default_filter, pc, msg, arg, event, idx, out, during>>

\* dynamic_prefix is a pub field: host code can take the write guard itself
\* and panic while holding it, which poisons the lock.
PoisonedWriter(t) ==
    /\ Idle(t)
    /\ ops < MaxOps
    /\ settings # NoSettings
    /\ LET c == settings.dynamic_prefix
       IN  /\ CanWrite(c)
           /\ ~cells[c].poisoned
           /\ cells' = [cells EXCEPT ![c].poisoned = TRUE]
    /\ pc' = [pc EXCEPT ![t] = "panicked"]
    /\ ops' = ops + 1
    /\ UNCHANGED <<worldVars, msg, arg, event, idx, out, during>>

\* Strings host code may store in the cell itself.
HostValues == {"raw"}

\* dynamic_prefix is a pub field: host code can take the write guard itself
\* and assign the String, without set_dynamic_prefix.
HostWrite(t, v) ==
    /\ Idle(t)
    /\ ops < MaxOps
    /\ settings # NoSettings
    /\ LET c == settings.dynamic_prefix
       IN  /\ CanWrite(c)
           /\ LockResult(c) = "Ok"
           /\ cells' = [cells EXCEPT ![c].value = v, ![c].committed = v]
    /\ ops' = ops + 1
    /\ UNCHANGED <<worldVars, pc, msg, arg, event, idx, out>>
    /\ Observe

(* ----------------------------- LogPlugin::build ------------------------ *)

\* Mutant: the new subscriber replaces the installed one.
SetGlobalDefaultReplace(current, subscriber) == [ok |-> TRUE, sink |-> subscriber]

\* set_global_default(subscriber): Ok only the first time in the process.
SetGlobalDefault(current, subscriber) ==
    IF current = NoSink
    THEN [ok |-> TRUE, sink |-> subscriber]
    ELSE [ok |-> FALSE, sink |-> current]

Build ==
    /\ ops < MaxOps
    /\ ops' = ops + 1
    /\ builds' = builds + 1
    /\ LET fresh == Len(cells) + 1
           created == settings = NoSettings
           resolved == IF created THEN DefaultSettings(fresh) ELSE settings
           cells1 == IF created THEN Append(cells, NewCell) ELSE cells
           dflt == DefaultFilter(resolved.level, resolved.filter)
           cloned == CloneHandle(cells1, resolved.dynamic_prefix)
           filter_layer == FilterLayer(env, dflt)
           guard == IF tracing_chrome THEN builds + 1 ELSE 0
           subscriber == [filter |-> filter_layer.directives,
                          dynamic_prefix |-> cloned.handle,
                          chrome |-> guard]
           installed == SetGlobalDefault(sink, subscriber)
       IN  /\ settings' = resolved
           /\ cells' = cloned.cells
           /\ default_filter' = dflt
           /\ IF ~filter_layer.ok
              THEN /\ lastBuild' = "unwrap panic"
                   /\ UNCHANGED <<sink, nonSendGuard>>
              ELSE /\ nonSendGuard' = IF tracing_chrome THEN guard ELSE nonSendGuard
                   /\ sink' = installed.sink
                   /\ lastBuild' = IF installed.ok THEN "installed" ELSE "expect panic"
    /\ UNCHANGED <<env, tracing_chrome, pc, msg, arg, event, idx, out, during>>

(* ------------------- LogSettings::set_dynamic_prefix ------------------- *)

\* The call, up to the lock: msg gets its trailing space.
SetPrefixCall(t, s) ==
    /\ Idle(t)
    /\ ops < MaxOps
    /\ settings # NoSettings
    /\ pc' = [pc EXCEPT ![t] = "sp_write"]
    /\ arg' = [arg EXCEPT ![t] = s]
    /\ msg' = [msg EXCEPT ![t] = PushSpace(s)]
    /\ cells' = [cells EXCEPT ![settings.dynamic_prefix].written = @ \cup {s}]
    /\ ops' = ops + 1
    /\ UNCHANGED <<worldVars, event, idx, out, during>>

\* self.dynamic_prefix.write().expect("dynamic_prefix log poisoned")
SetPrefixLock(t) ==
    /\ pc[t] = "sp_write"
    /\ LET c == settings.dynamic_prefix
       IN  /\ CanWrite(c)
           /\ IF LockResult(c) = "Err"
              THEN /\ pc' = [pc EXCEPT ![t] = "panicked"]
                   /\ UNCHANGED cells
              ELSE /\ pc' = [pc EXCEPT ![t] = "sp_locked"]
                   /\ cells' = [cells EXCEPT ![c].writer = t]
    /\ UNCHANGED <<worldVars, msg, arg, event, idx, out, during, ops>>

\* *guard = msg, begun
SetPrefixAssign(t) ==
    /\ pc[t] = "sp_locked"
    /\ LET c == settings.dynamic_prefix
       IN  cells' = [cells EXCEPT ![c].value = Torn(@, msg[t])]
    /\ pc' = [pc EXCEPT ![t] = "sp_assign"]
    /\ UNCHANGED <<worldVars, msg, arg, event, idx, out, during, ops>>

\* Mutant: msg is appended to the String in the cell (guard.push_str(&msg)).
SetPrefixReturnAppends(t) ==
    /\ pc[t] = "sp_assign"
    /\ LET c == settings.dynamic_prefix
           appended == cells[c].committed \o msg[t]
       IN  cells' = [cells EXCEPT ![c].value = appended, ![c].committed = appended,
                                  ![c].writer = 0, ![c].lastSet = arg[t]]
    /\ pc' = [pc EXCEPT ![t] = "idle"]
    /\ msg' = [msg EXCEPT ![t] = ""]
    /\ arg' = [arg EXCEPT ![t] = NoCall]
    /\ UNCHANGED <<worldVars, event, idx, out, ops>>
    /\ Observe

\* *guard = msg, done; the guard is dropped and the call returns
SetPrefixReturn(t) ==
    /\ pc[t] = "sp_assign"
    /\ LET c == settings.dynamic_prefix
       IN  cells' = [cells EXCEPT ![c].value = msg[t], ![c].committed = msg[t],
                                  ![c].writer = 0, ![c].lastSet = arg[t]]
    /\ pc' = [pc EXCEPT ![t] = "idle"]
    /\ msg' = [msg EXCEPT ![t] = ""]
    /\ arg' = [arg EXCEPT ![t] = NoCall]
    /\ UNCHANGED <<worldVars, event, idx, out, ops>>
    /\ Observe

(* ------------------------- formatting an event ------------------------- *)

\* A thread emits an event; the installed subscriber's fmt layer formats its
\* fields one by one with the closure.
Emit(t, e) ==
    /\ Idle(t)
    /\ sink # NoSink
    /\ pc' = [pc EXCEPT ![t] = "fmt"]
    /\ event' = [event EXCEPT ![t] = e]
    /\ idx' = [idx EXCEPT ![t] = 1]
    /\ out' = [out EXCEPT ![t] = ""]
    /\ UNCHANGED <<worldVars, cells, msg, arg>>
    /\ Observe

\* an event, counted as one of the operations of the run
LogEvent(t, e) ==
    /\ ops < MaxOps
    /\ ops' = ops + 1
    /\ Emit(t, e)

\* a field other than the message: the else branch, no lock taken
FmtOther(t) ==
    /\ Formatting(t)
    /\ event[t][idx[t]].name # "message"
    /\ out' = [out EXCEPT ![t] =
                 Delimited(@, idx[t] > 1,
                           FieldFn(cells[sink.dynamic_prefix].value, event[t][idx[t]]))]
    /\ idx' = [idx EXCEPT ![t] = @ + 1]
    /\ UNCHANGED <<worldVars, cells, pc, msg, arg, event, ops>>
    /\ Observe

\* the message: dynamic_prefix.read().expect("extra lock poisoned")
FmtReadLock(t) ==
    /\ Formatting(t)
    /\ event[t][idx[t]].name = "message"
    /\ LET c == sink.dynamic_prefix
       IN  /\ CanRead(c)
           /\ IF LockResult(c) = "Err"
              THEN /\ pc' = [pc EXCEPT ![t] = "panicked"]
                   /\ UNCHANGED cells
              ELSE /\ pc' = [pc EXCEPT ![t] = "fmt_read"]
                   /\ cells' = [cells EXCEPT ![c].readers = @ \cup {t}]
    /\ UNCHANGED <<worldVars, msg, arg, event, idx, out, ops>>
    /\ Observe

\* write!(writer, "{}{:?}", *guard, value), then the read guard is dropped
FmtMessage(t) ==
    /\ pc[t] = "fmt_read"
    /\ LET c == sink.dynamic_prefix
       IN  /\ out' = [out EXCEPT ![t] =
                        Delimited(@, idx[t] > 1,
                                  FieldFn(cells[c].value, event[t][idx[t]]))]
           /\ cells' = [cells EXCEPT ![c].readers = @ \ {t}]
    /\ idx' = [idx EXCEPT ![t] = @ + 1]
    /\ pc' = [pc EXCEPT ![t] = "fmt"]
    /\ UNCHANGED <<worldVars, msg, arg, event, ops>>
    /\ Observe

\* all fields written: the line is emitted
FmtDone(t) ==
    /\ pc[t] = "fmt"
    /\ idx[t] > Len(event[t])
    /\ pc' = [pc EXCEPT ![t] = "idle"]
    /\ event' = [event EXCEPT ![t] = <<>>]
    /\ idx' = [idx EXCEPT ![t] = 0]
    /\ out' = [out EXCEPT ![t] = ""]
    /\ UNCHANGED <<worldVars, cells, msg, arg, ops>>
    /\ Observe

(* --------------------------- the specification ------------------------- *)

Next ==
    \/ \E f \in HostFilters, l \in HostLevels : InsertSettings(f, l)
    \/ \E f \in HostFilters \cup {"wgpu=error"}, l \in HostLevels : MutateSettings(f, l)
    \/ Build
    \/ \E t \in Threads : PoisonedWriter(t)
    \/ \E t \in Threads, s \in Prefixes : SetPrefixCall(t, s)
    \/ \E t \in Threads : SetPrefixLock(t)
    \/ \E t \in Threads : SetPrefixAssign(t)
    \/ \E t \in Threads : SetPrefixReturn(t)
    \/ \E t \in Threads, e \in Events : LogEvent(t, e)
    \/ \E t \in Threads : FmtOther(t)
    \/ \E t \in Threads : FmtReadLock(t)
    \/ \E t \in Threads : FmtMessage(t)
    \/ \E t \in Threads : FmtDone(t)

Spec == Init /\ [][Next]_vars

\* The steps of a call thread t is in: the scheduler runs a thread that can
\* take a step. RwLock promises no order of service among those waiting for
\* it, so no more than this is assumed of a thread waiting in read() or
\* write().
ThreadStep(t) ==
    \/ SetPrefixLock(t)
    \/ SetPrefixAssign(t)
    \/ SetPrefixReturn(t)
    \/ FmtOther(t)
    \/ FmtReadLock(t)
    \/ FmtMessage(t)
    \/ FmtDone(t)

\* The plugin is built, its threads set the prefix and log, with no host
\* writer poisoning the lock; the threads log for as long as they like.
LiveNext ==
    \/ Build
    \/ \E t \in Threads, s \in Prefixes : SetPrefixCall(t, s)
    \/ \E t \in Threads, e \in Events : Emit(t, e) /\ UNCHANGED ops
    \/ \E t \in Threads : ThreadStep(t)

\* RUST_LOG and the chrome feature play no part in the lock: one choice.
LiveInit == Init /\ env = NoEnv /\ ~tracing_chrome

LiveSpec ==
    LiveInit /\ [][LiveNext]_vars /\ \A t \in Threads : WF_vars(ThreadStep(t))

\* The program with a host that also writes the cell through the pub field.
HostNext ==
    \/ Next
    \/ \E t \in Threads, v \in HostValues : HostWrite(t, v)

HostSpec == Init /\ [][HostNext]_vars

(* ------------------------------ the claims ----------------------------- *)

\* What a read gives after set_dynamic_prefix(s): s and one space, or "".
Stored(s) == IF s = "" THEN "" ELSE s \o " "

InSetPrefix(t) == pc[t] \in {"sp_write", "sp_locked", "sp_assign"}

\* The step in which thread t writes the message field.
MessageStep(t) == pc[t] = "fmt_read" /\ pc'[t] = "fmt"

\* The step in which thread t writes a field that is not the message.
OtherStep(t) ==
    /\ pc[t] = "fmt"
    /\ pc'[t] = "fmt"
    /\ idx'[t] = idx[t] + 1

\* The step is a call of LogPlugin::build.
BuildStep == builds' = builds + 1

\* The text the delimiter contributes before field idx[t] of thread t.
Before(t) == IF idx[t] = 1 THEN "" ELSE out[t] \o ", "

\* C1: once set_dynamic_prefix(s) has returned and until the next write
\* begins, the cell reads s followed by exactly one space when s is not
\* empty, and the empty string when s is empty.
C1_ReadAfterSet ==
    \A c \in DOMAIN cells :
        (cells[c].lastSet # NoCall /\ cells[c].writer = 0)
            => cells[c].value =
                 (IF cells[c].lastSet = "" THEN "" ELSE cells[c].lastSet \o " ")

C1_Witness ==
    \E c \in DOMAIN cells :
        /\ cells[c].lastSet = "REQ-42"
        /\ cells[c].writer = 0
        /\ cells[c].value = "REQ-42 "

\* C2: with the sink installed, a message field formatted after a
\* set_dynamic_prefix(s) call on the world's LogSettings has returned (and
\* before the next one returns) is rendered with that call's prefix: "hello"
\* after set_prefix(""), "REQ-42 hello" after set_prefix("REQ-42").
C2_FormatterSeesSetPrefix ==
    [][\A t \in Threads :
         (MessageStep(t) /\ cells[settings.dynamic_prefix].lastSet # NoCall)
            => LET s == cells[settings.dynamic_prefix].lastSet
                   v == event[t][idx[t]].value
               IN  /\ out'[t] = Before(t) \o Stored(s) \o DebugFmt(v)
                   /\ (s = "" /\ idx[t] = 1 /\ v = Args("hello"))
                         => out'[t] = "hello"
                   /\ (s = "REQ-42" /\ idx[t] = 1 /\ v = Args("hello"))
                         => out'[t] = "REQ-42 hello"]_vars

C2_Witness ==
    \E t \in Threads :
        /\ sink # NoSink
        /\ cells[settings.dynamic_prefix].lastSet = "REQ-42"
        /\ pc[t] = "fmt"
        /\ event[t] = <<Field("message", Args("hello"))>>
        /\ idx[t] = 2
        /\ out[t] = "REQ-42 hello"

\* C3: the text written for a field named "message" is the value the cell
\* holds at the instant of formatting, immediately followed by the formatted
\* field value, with nothing between them.
C3_MessageIsPrefixThenValue ==
    [][\A t \in Threads :
         MessageStep(t)
            => /\ event[t][idx[t]].name = "message"
               /\ out'[t] = Before(t) \o cells[sink.dynamic_prefix].value
                                      \o DebugFmt(event[t][idx[t]].value)]_vars

C3_Witness ==
    \E t \in Threads :
        /\ pc[t] = "fmt"
        /\ Len(event[t]) = 2
        /\ idx[t] = 2
        /\ event[t][1].name = "message"
        /\ cells[sink.dynamic_prefix].value = "REQ-42 "
        /\ out[t] = "REQ-42 hello"

\* C4: the text written for a field named n other than "message", with
\* value v, is n, "=", and the formatted v, whatever the prefix is; the
\* fields of one event are joined by ", ".
C4_OtherFieldIsNameEqualsValue ==
    [][\A t \in Threads :
         (OtherStep(t) /\ event[t][idx[t]].name # "message")
            => out'[t] = Before(t) \o event[t][idx[t]].name \o "="
                                   \o DebugFmt(event[t][idx[t]].value)]_vars

C4_Witness ==
    \E t \in Threads :
        /\ pc[t] = "fmt"
        /\ cells[sink.dynamic_prefix].value = "REQ-42 "
        /\ out[t] = "count=7, flag=true"

\* The values a cell can hold in full: the initial one and the stored form
\* of every value passed to set_dynamic_prefix.
Whole(c) == {""} \cup {Stored(s) : s \in cells[c].written}

\* C5: when every set_dynamic_prefix call made has returned, the cell holds
\* the stored form of one of the values written; and the value a formatter
\* reads, also while writes are under way, is a whole value (the initial one
\* or a written one), never a cell caught in the middle of an assignment.
C5_NoTornValue ==
    [][/\ \A c \in DOMAIN cells' :
            ( /\ cells'[c].written # {}
              /\ ~cells'[c].poisoned
              /\ \A t \in Threads : ~InSetPrefix(t)' )
               => cells'[c].value \in {Stored(s) : s \in cells'[c].written}
       /\ \A t \in Threads :
            MessageStep(t)
               => cells[sink.dynamic_prefix].value \in Whole(sink.dynamic_prefix)]_vars

C5_Witness ==
    \E t \in Threads, u \in Threads :
        /\ sink # NoSink
        /\ pc[t] = "sp_assign"
        /\ cells[sink.dynamic_prefix].writer = t
        /\ cells[sink.dynamic_prefix].value \notin Whole(sink.dynamic_prefix)
        /\ cells[sink.dynamic_prefix].written = Prefixes
        /\ Formatting(u)
        /\ event[u][idx[u]].name = "message"

\* The outcomes of LogPlugin::build that are panics.
BuildPanics == {"unwrap panic", "expect panic"}

\* C6 as stated: a build call made when a sink is installed panics with the
\* "Could not set global default tracing subscriber" message of the expect
\* on set_global_default, and leaves the installed sink as it was.
C6_SecondBuildExpectPanic ==
    [][(sink # NoSink /\ BuildStep)
          => (lastBuild' = "expect panic" /\ sink' = sink)]_vars

\* C6, amended: an installed sink is never replaced or removed, and a build
\* call made when a sink is installed panics: with the expect message on
\* set_global_default when its filter could be built, and on the unwrap of
\* the filter when neither RUST_LOG nor the computed default parses.
C6_InstalledOnceSecondBuildPanics ==
    [][/\ sink # NoSink => sink' = sink
       /\ (sink # NoSink /\ BuildStep)
             => /\ lastBuild' \in BuildPanics
                /\ lastBuild' = "unwrap panic"
                      <=> (/\ ~TryFromDefaultEnv(env).ok
                           /\ ~TryNew(default_filter').ok)]_vars

C6_Witness ==
    /\ sink # NoSink
    /\ builds = 2
    /\ lastBuild = "expect panic"
    /\ sink.chrome < builds

\* C7: a build call with RUST_LOG unset and a computed default expression
\* that does not parse panics and installs nothing; and no sink is ever
\* installed with a filter that is not the parse of an expression.
C7_InvalidDefaultIsFatal ==
    [][/\ (BuildStep /\ env = NoEnv /\ ~TryNew(default_filter').ok)
             => (lastBuild' \in BuildPanics /\ sink' = sink)
       /\ sink' # NoSink => sink'.filter \in DirectiveLists]_vars

C7_Witness ==
    /\ env = NoEnv
    /\ settings # NoSettings
    /\ settings.filter = "mylib=bogus"
    /\ default_filter \in {"WARN,mylib=bogus", "INFO,mylib=bogus"}
    /\ lastBuild = "unwrap panic"
    /\ sink = NoSink

\* C8: the filter of the sink a build call installs is the parse of RUST_LOG
\* when RUST_LOG is set and parses, whatever the level and filter of the
\* LogSettings; otherwise it is the parse of the computed default.
C8_OverrideFirst ==
    [][(sink = NoSink /\ sink' # NoSink)
          => sink'.filter =
               (IF env # NoEnv /\ TryNew(env).ok
                THEN TryNew(env).directives
                ELSE TryNew(LevelName(settings'.level) \o "," \o settings'.filter)
                        .directives)]_vars

C8_Witness ==
    /\ env = "debug"
    /\ lastBuild = "installed"
    /\ settings.filter = "mylib=error"
    /\ default_filter = "WARN,mylib=error"
    /\ sink # NoSink
    /\ sink.filter = <<"debug">>

\* C9: the default filter expression a build call computes is the name of
\* the level, a comma, and the filter pattern of the LogSettings it read,
\* and nothing else: WARN and "mylib=error" give "WARN,mylib=error".
C9_DefaultFilterExpression ==
    [][BuildStep
          => /\ default_filter' = LevelName(settings'.level) \o "," \o settings'.filter
             /\ (settings'.level = "Level::WARN" /\ settings'.filter = "mylib=error")
                   => default_filter' = "WARN,mylib=error"
             /\ (settings'.level = "Level::INFO" /\ settings'.filter = "wgpu=error")
                   => default_filter' = "INFO,wgpu=error"]_vars

C9_Witness ==
    /\ lastBuild # "none"
    /\ settings.level = "Level::WARN"
    /\ settings.filter = "mylib=error"
    /\ default_filter = "WARN,mylib=error"

\* Thread t has left the point where it waits for the write guard.
LeavesWriteLock(t) == pc[t] = "sp_write" /\ pc'[t] # "sp_write"

\* Thread t has left the point where it is about to format a message field.
LeavesMessageField(t) ==
    /\ Formatting(t)
    /\ event[t][idx[t]].name = "message"
    /\ (pc'[t] # pc[t] \/ idx'[t] # idx[t])

\* C10: once the lock of the cell is poisoned it stays poisoned, and every
\* later access panics: a set_dynamic_prefix call panics at write() and
\* leaves the cell as it is, and the formatter panics at read() on a message
\* field without writing anything; no thread holds a guard of the cell.
C10_PoisonIsFatal ==
    [][\A c \in DOMAIN cells :
         cells[c].poisoned
            => /\ cells'[c].poisoned
               /\ cells'[c].writer = 0 /\ cells'[c].readers = {}
               /\ \A t \in Threads :
                    /\ (LeavesWriteLock(t) /\ settings.dynamic_prefix = c)
                          => (pc'[t] = "panicked" /\ cells' = cells)
                    /\ (LeavesMessageField(t) /\ sink.dynamic_prefix = c)
                          => (pc'[t] = "panicked" /\ out'[t] = out[t])]_vars

C10_Witness ==
    \E t \in Threads, u \in Threads :
        /\ sink # NoSink
        /\ cells[sink.dynamic_prefix].poisoned
        /\ cells[sink.dynamic_prefix].value = "REQ-42 "
        /\ pc[t] = "panicked"
        /\ event[t] = <<Field("message", Args("hello"))>>
        /\ out[t] = ""
        /\ pc[u] = "panicked"
        /\ u # t

\* C11: the prefix a read returns is a value the cell held at some instant
\* between the start of the read (the call of read()) and its end (the
\* write of the message): the value held when the read began, or one whose
\* assignment was completed while the read lasted. So a read that begins
\* after a set_dynamic_prefix call has returned does not return an older
\* value than that call's.
C11_ReadsAreLinearizable ==
    [][\A t \in Threads :
         MessageStep(t)
            => \E p \in during[t] :
                  out'[t] = Before(t) \o p \o DebugFmt(event[t][idx[t]].value)]_vars

C11_Witness ==
    \E t \in Threads :
        /\ pc[t] = "fmt_read"
        /\ during[t] = {"", "REQ-42 "}
        /\ cells[sink.dynamic_prefix].value = "REQ-42 "

WaitsToWrite(t) == pc[t] = "sp_write"
WaitsToRead(t) == Formatting(t) /\ event[t][idx[t]].name = "message"

AssignStep(t) ==
    \/ pc[t] = "sp_locked" /\ pc'[t] = "sp_assign"
    \/ pc[t] = "sp_assign" /\ pc'[t] = "idle"

\* Thread t formats a field, the message or another one, or ends the line.
FormatStep(t) ==
    /\ pc[t] \in {"fmt", "fmt_read"}
    /\ <<pc[t], idx[t], out[t]>>' # <<pc[t], idx[t], out[t]>>

FilterNow == FilterLayer(env, DefaultFilter(settings.level, settings.filter))

\* C14: the filter of the installed subscriber is the one computed by the
\* build that installed it, and from then on no step changes the filter or
\* the cell the formatter reads: set_dynamic_prefix and assignments to the
\* filter and level of the LogSettings leave both as they were.
C14_InstalledFilterAndFormatterFixed ==
    [][/\ (sink = NoSink /\ sink' # NoSink)
            => /\ BuildStep
               /\ sink'.filter = FilterNow'.directives
               /\ sink'.dynamic_prefix = settings'.dynamic_prefix
       /\ sink # NoSink
            => /\ sink' # NoSink
               /\ sink'.filter = sink.filter
               /\ sink'.dynamic_prefix = sink.dynamic_prefix]_vars

\* The LogSettings were changed after the install and a prefix was set: the
\* installed filter is no longer the one the LogSettings describe.
C14_Witness ==
    /\ sink # NoSink
    /\ FilterNow.ok
    /\ sink.filter # FilterNow.directives
    /\ cells[sink.dynamic_prefix].value = "REQ-42 "


(* C15: build resolves the LogSettings ------------------------------------ *)

\* C15: a build leaves LogSettings the host inserted, and their cell, as they
\* are; with none, it stores LogSettings of level INFO and filter
\* "wgpu=error" with a new cell holding the empty String. Either way the
\* LogSettings exist after the build, the default filter expression is
\* computed from them, and a subscriber the build installs reads their cell.
C15_BuildResolvesSettings ==
    [][BuildStep
         => /\ settings # NoSettings => settings' = settings /\ cells' = cells
            /\ settings = NoSettings
                 => /\ settings'.level = "Level::INFO"
                    /\ settings'.filter = "wgpu=error"
                    /\ settings'.dynamic_prefix = Len(cells) + 1
                    /\ Len(cells') = Len(cells) + 1
                    /\ cells'[settings'.dynamic_prefix].value = ""
            /\ settings' # NoSettings
            /\ default_filter' = DefaultFilter(settings'.level, settings'.filter)
            /\ (sink = NoSink /\ sink' # NoSink)
                 => sink'.dynamic_prefix = settings'.dynamic_prefix]_vars

\* A build without host LogSettings has stored the default ones and installed
\* a subscriber that reads their cell, which is still empty.
C15_Witness ==
    /\ builds = 1
    /\ lastBuild = "installed"
    /\ settings # NoSettings
    /\ settings.level = "Level::INFO" /\ settings.filter = "wgpu=error"
    /\ sink.dynamic_prefix = settings.dynamic_prefix
    /\ cells[sink.dynamic_prefix] = NewCell


(* C16: set_dynamic_prefix("") gives back the default --------------------- *)

\* The last completed set_dynamic_prefix on cell c was given "" and no
\* other write is under way.
LastSetEmpty(c) == cells[c].lastSet = "" /\ cells[c].writer = 0

\* After set_dynamic_prefix(""), the cell holds what a new cell holds.
EmptyIsDefault == \A c \in 1..Len(cells) : LastSetEmpty(c) => cells[c].value = NewCell.value

\* C16: setting the prefix to "" is the same as never having set one:
\* whatever was set before, the cell then holds the String of a new cell,
\* and a message field formatted then is the bare Debug rendering of its
\* value, with no space before it.
C16_EmptyPrefixIsUnset ==
    [][/\ EmptyIsDefault /\ EmptyIsDefault'
       /\ \A t \in Threads :
            (MessageStep(t) /\ LastSetEmpty(sink.dynamic_prefix))
               => out'[t] = Before(t) \o DebugFmt(event[t][idx[t]].value)]_vars

\* "REQ-42" was set, then "", and a message first in its event came out bare.
C16_Witness ==
    \E t \in Threads :
        /\ sink # NoSink
        /\ cells[sink.dynamic_prefix].written = Prefixes
        /\ LastSetEmpty(sink.dynamic_prefix)
        /\ pc[t] = "fmt" /\ idx[t] = 2
        /\ event[t][1].name = "message"
        /\ out[t] = DebugFmt(event[t][1].value)


(* C17: set_dynamic_prefix is idempotent ---------------------------------- *)

\* Thread t completes set_dynamic_prefix(s), s not empty, and the call
\* completed before it on the same cell was given the same s.
SecondInARow(t) ==
    /\ pc[t] = "sp_assign"
    /\ arg[t] # ""
    /\ arg[t] = cells[settings.dynamic_prefix].lastSet

\* C17: for a non-empty s, the second of two set_dynamic_prefix(s) in a row
\* leaves the cell with the String the first one left: s and one space.
C17_SetPrefixIdempotent ==
    [][\A t \in Threads :
         (SecondInARow(t) /\ pc'[t] = "idle")
            => /\ cells'[settings.dynamic_prefix].value
                     = cells[settings.dynamic_prefix].committed
               /\ cells'[settings.dynamic_prefix].value = arg[t] \o " "]_vars

\* "REQ-42" was set and the call has returned; a second call with "REQ-42"
\* holds the write guard and is completing its assignment.
C17_Witness ==
    \E t \in Threads :
        /\ SecondInARow(t)
        /\ arg[t] = "REQ-42"
        /\ cells[settings.dynamic_prefix].committed = "REQ-42 "
        /\ cells[settings.dynamic_prefix].writer = t


(* C18: the shape of the stored String ------------------------------------ *)

\* Arguments of set_dynamic_prefix at the edge of the claim: empty, one
\* character, a lone space, and a longer one.
ShapeSamples == {"", "a", " ", "REQ-42"}

\* x is the empty String, or some s that was passed and is not empty,
\* followed by one space: at least two characters, the last one a space.
WellShaped(x, passed) ==
    \/ x = ""
    \/ \E s \in passed : s # "" /\ x = s \o " " /\ Len(x) >= 2 /\ x # " "

\* C18: from the default LogSettings on and through every interleaving of
\* set_dynamic_prefix calls, the String a cell holds while no write is under
\* way is either empty or at least two characters long with a space last:
\* never a lone space, never a non-empty String without the space.
C18_StoredShape ==
    /\ \A c \in 1..Len(cells) :
          cells[c].writer = 0 => WellShaped(cells[c].value, cells[c].written)
    /\ \A s \in ShapeSamples : WellShaped(PushSpace(s), {s})

\* "" and "REQ-42" have both been set; the cell holds "REQ-42 ".
C18_Witness ==
    /\ settings # NoSettings
    /\ cells[settings.dynamic_prefix].written = Prefixes
    /\ cells[settings.dynamic_prefix].writer = 0
    /\ cells[settings.dynamic_prefix].lastSet = "REQ-42"
    /\ cells[settings.dynamic_prefix].value = "REQ-42 "

====
